---- MODULE Spec2Model ----
(***************************************************************************)
(* Model of Tools/fuzzer/fuzzer/fuzzer.py: the bytecode fuzzer that        *)
(* intercepts every emitted instruction (Fuzzer.emit), either substitutes  *)
(* the opcode by one of the same stack-effect set or randomizes the        *)
(* operand, keeps the names / varnames / freevars / cellvars / consts      *)
(* tables in step, and classifies one trial (fuzzer_compile).              *)
(*                                                                         *)
(* A Python value is a record [ty, s, n]: its type name, its characters    *)
(* (for a str) and its number (for an int).  A string is a tuple of        *)
(* one-character strings, so that its length is Len and "" is << >>.       *)
(* A table (IndexedSet.keys, consts) is a function from keys to indices.   *)
(* Random draws are nondeterministic choices.                              *)
(***************************************************************************)
EXTENDS Integers, Sequences, FiniteSets, TLC

VARIABLES
    names,                 \* graph.names.keys     : name -> index
    varnames,              \* graph.varnames.keys  : name -> index
    freevars,              \* graph.freevars.keys  : name -> index
    cellvars,              \* graph.cellvars.keys  : name -> index
    closure,               \* graph.closure.keys   : name -> index
    consts,                \* graph.consts         : const key -> index
    oparg_randomizations,  \* Fuzzer.oparg_randomizations : oparg -> randomized oparg
    insts,                 \* graph.current.insts  : the emitted instructions
    calls,                 \* the emit calls made so far (arguments and path taken)
    do_not_emit_bytecode,  \* graph.do_not_emit_bytecode
    first_inst_lineno,     \* graph.first_inst_lineno
    draw,                  \* the draws and the guard of the latest emit call
    pc,                    \* position inside fuzzer_compile
    cinderjit,             \* whether the cinderjit import succeeded
    code,                  \* the local `code` of fuzzer_compile
    trial,                 \* what one trial did: compile / verifier / JIT invoked, and their answers
    result,                \* the pair returned by fuzzer_compile
    rnd,                   \* one call of randomize_variable / generate_random_*
    rop,                   \* one call of randomize_opcode
    gck                    \* get_const_key called on two constants

vars == << names, varnames, freevars, cellvars, closure, consts,
           oparg_randomizations, insts, calls, do_not_emit_bytecode,
           first_inst_lineno, draw, pc, cinderjit, code, trial, result, rnd, rop, gck >>

unitVars == << names, varnames, freevars, cellvars, closure, consts,
               oparg_randomizations, insts, calls, do_not_emit_bytecode,
               first_inst_lineno, draw >>

driverVars == << pc, cinderjit, code, trial, result >>

-----------------------------------------------------------------------------
(* Bounds of the model *)

\* number of emit calls followed in one compiled unit
MaxEmits == 2
\* longest random string drawn (stands for STR_LEN_UPPER_BOUND = 100)
MaxStrLen == 1
\* largest random integer drawn (stands for sys.maxsize)
MaxInt == 1
\* largest encoded operand drawn (stands for 2**32 - 1)
MaxOparg == 2
\* depth at which the interpreter stops a recursion with RecursionError
RecursionLimit == 2
\* deepest nesting of tuples and frozensets among the constants
MaxDepth == 2

\* characters random.choice draws from (stands for letters + digits + punctuation)
Alphabet == { "a", "b" }

-----------------------------------------------------------------------------
(* Module constants, fuzzer.py:36-45 *)

STR_LEN_UPPER_BOUND == MaxStrLen
STR_LEN_LOWER_BOUND == 0
INT_UPPER_BOUND == MaxInt
INT_LOWER_BOUND == (0 - MaxInt) - 1
OPARG_LOWER_BOUND == 0
OPARG_UPPER_BOUND == MaxOparg
CMP_OP_LENGTH == 12
INSTR_RANDOMIZATION_CHANCE == 50

-----------------------------------------------------------------------------
(* The opcode sets of class Fuzzer *)

\* fuzzer.py:167-189
INSTRS_WITH_OPARG_IN_CONSTS ==
    { "LOAD_CONST", "LOAD_CLASS", "INVOKE_FUNCTION", "INVOKE_METHOD",
      "LOAD_FIELD", "STORE_FIELD", "CAST", "PRIMITIVE_BOX",
      "PRIMITIVE_UNBOX", "TP_ALLOC", "CHECK_ARGS", "BUILD_CHECKED_MAP",
      "BUILD_CHECKED_LIST", "PRIMITIVE_LOAD_CONST", "LOAD_LOCAL",
      "STORE_LOCAL", "REFINE_TYPE", "LOAD_METHOD_SUPER", "LOAD_ATTR_SUPER",
      "FUNC_CREDENTIAL", "READONLY_OPERATION" }

\* fuzzer.py:191-195
INSTRS_WITH_OPARG_IN_VARNAMES ==
    { "LOAD_FAST", "STORE_FAST", "DELETE_FAST" }

\* fuzzer.py:197-210
INSTRS_WITH_OPARG_IN_NAMES ==
    { "LOAD_NAME", "LOAD_GLOBAL", "STORE_GLOBAL", "DELETE_GLOBAL",
      "STORE_NAME", "DELETE_NAME", "IMPORT_NAME", "IMPORT_FROM",
      "STORE_ATTR", "LOAD_ATTR", "DELETE_ATTR", "LOAD_METHOD" }

\* fuzzer.py:212-218
INSTRS_WITH_OPARG_IN_CLOSURE ==
    { "LOAD_DEREF", "STORE_DEREF", "DELETE_DEREF", "LOAD_CLASSDEREF",
      "LOAD_CLOSURE" }

\* fuzzer.py:220-232
INSTRS_WITH_BRANCHES ==
    { "FOR_ITER", "JUMP_ABSOLUTE", "JUMP_FORWARD", "JUMP_IF_FALSE_OR_POP",
      "JUMP_IF_TRUE_OR_POP", "POP_JUMP_IF_FALSE", "POP_JUMP_IF_TRUE",
      "RETURN_VALUE", "RAISE_VARARGS" }

\* fuzzer.py:234-258
INSTRS_WITH_STACK_EFFECT_0 ==
    { "ROT_TWO", "ROT_THREE", "ROT_FOUR", "NOP", "UNARY_POSITIVE",
      "UNARY_NEGATIVE", "UNARY_NOT", "UNARY_INVERT", "GET_AITER", "GET_ITER",
      "GET_YIELD_FROM_ITER", "GET_AWAITABLE", "SETUP_ANNOTATIONS",
      "YIELD_VALUE", "POP_BLOCK", "DELETE_NAME", "DELETE_GLOBAL",
      "LOAD_ATTR", "JUMP_FORWARD", "JUMP_ABSOLUTE", "DELETE_FAST",
      "DELETE_DEREF", "EXTENDED_ARG" }

\* fuzzer.py:260-274
INSTRS_WITH_STACK_EFFECT_1 ==
    { "DUP_TOP", "GET_ANEXT", "BEFORE_ASYNC_WITH", "LOAD_BUILD_CLASS",
      "LOAD_NAME", "IMPORT_FROM", "LOAD_GLOBAL", "LOAD_FAST", "LOAD_CLOSURE",
      "LOAD_DEREF", "FUNC_CREDENTIAL", "LOAD_CLASSDEREF", "LOAD_METHOD" }

\* fuzzer.py:276-279
INSTRS_WITH_STACK_EFFECT_2 ==
    { "DUP_TOP_TWO", "WITH_CLEANUP_START" }

\* fuzzer.py:281-325
INSTRS_WITH_STACK_EFFECT_NEG_1 ==
    { "POP_TOP", "BINARY_MATRIX_MULTIPLY", "INPLACE_MATRIX_MULTIPLY",
      "BINARY_POWER", "BINARY_MULTIPLY", "BINARY_MODULO", "BINARY_ADD",
      "BINARY_SUBTRACT", "BINARY_SUBSCR", "BINARY_FLOOR_DIVIDE",
      "BINARY_TRUE_DIVIDE", "INPLACE_FLOOR_DIVIDE", "INPLACE_TRUE_DIVIDE",
      "INPLACE_ADD", "INPLACE_SUBTRACT", "INPLACE_MULTIPLY",
      "INPLACE_MODULO", "BINARY_LSHIFT", "BINARY_RSHIFT", "BINARY_AND",
      "BINARY_XOR", "BINARY_OR", "INPLACE_POWER", "PRINT_EXPR", "YIELD_FROM",
      "INPLACE_LSHIFT", "INPLACE_RSHIFT", "INPLACE_AND", "INPLACE_XOR",
      "INPLACE_OR", "RETURN_VALUE", "IMPORT_STAR", "STORE_NAME",
      "DELETE_ATTR", "STORE_GLOBAL", "IMPORT_NAME", "POP_JUMP_IF_FALSE",
      "POP_JUMP_IF_TRUE", "STORE_FAST", "STORE_DEREF", "LIST_APPEND",
      "SET_ADD", "LOAD_METHOD_SUPER" }

\* fuzzer.py:327-332
INSTRS_WITH_STACK_EFFECT_NEG_2 ==
    { "DELETE_SUBSCR", "STORE_ATTR", "MAP_ADD", "LOAD_ATTR_SUPER" }

\* fuzzer.py:334-338
INSTRS_WITH_STACK_EFFECT_NEG_3 ==
    { "STORE_SUBSCR", "WITH_CLEANUP_FINISH", "POP_EXCEPT" }

\* fuzzer.py:340-361
INSTRS_WITH_OPARG_AFFECTING_STACK ==
    { "MAKE_FUNCTION", "CALL_FUNCTION", "BUILD_MAP", "BUILD_MAP_UNPACK",
      "BUILD_MAP_UNPACK_WITH_CALL", "BUILD_CONST_KEY_MAP", "UNPACK_SEQUENCE",
      "UNPACK_EX", "BUILD_TUPLE", "BUILD_LIST", "BUILD_SET", "BUILD_STRING",
      "BUILD_LIST_UNPACK", "BUILD_TUPLE_UNPACK",
      "BUILD_TUPLE_UNPACK_WITH_CALL", "BUILD_SET_UNPACK", "CALL_FUNCTION_KW",
      "CALL_FUNCTION_EX", "CALL_METHOD", "RAISE_VARARGS" }

-----------------------------------------------------------------------------
(* Python values *)

Str(chars) == [ty |-> "str", s |-> chars, n |-> 0]
Int_(number) == [ty |-> "int", s |-> << >>, n |-> number]
None == [ty |-> "NoneType", s |-> << >>, n |-> 0]
\* a float of the given magnitude: sign is 1, or -1 when the sign bit is set
\* (Float(1, 0) is 0.0 and Float(-1, 0) is -0.0)
Float(sign, magnitude) == [ty |-> "float", sign |-> sign, n |-> magnitude]
\* a tuple object and its items
Tuple(items) == [ty |-> "tuple", items |-> items]
\* a frozenset object: its elements in the order the object iterates them
\* (no two of them equal)
Frozenset(items) == [ty |-> "frozenset", items |-> items]

\* random.randint(lower, upper): the integers it can return (empty: ValueError)
randint(lower, upper) == lower..upper

\* "".join(random.choice(...) for i in range(newlen)), fuzzer.py:470-473
random_strings(newlen) == [1..newlen -> Alphabet]

-----------------------------------------------------------------------------
(* randomize_opcode and generate_random_opcode, fuzzer.py:488-518 *)

\* fuzzer.py:499-506
stack_depth_sets ==
    << INSTRS_WITH_STACK_EFFECT_0, INSTRS_WITH_STACK_EFFECT_1,
       INSTRS_WITH_STACK_EFFECT_2, INSTRS_WITH_STACK_EFFECT_NEG_1,
       INSTRS_WITH_STACK_EFFECT_NEG_2, INSTRS_WITH_STACK_EFFECT_NEG_3 >>

\* fuzzer.py:489-496: the opcodes randomize_opcode returns untouched
exempt_opcode(opcode) ==
    \/ opcode \in INSTRS_WITH_BRANCHES
    \/ opcode \in INSTRS_WITH_OPARG_AFFECTING_STACK
    \/ opcode = "LOAD_CONST"

\* fuzzer.py:516: the draw is thrown away and repeated
opcode_resampled(new_op, opcode) == new_op = opcode

\* generate_random_opcode drawing from every opcode instead of the given set
generate_random_opcode_any_set(opcode, options) ==
    { new_op \in INSTRS_WITH_STACK_EFFECT_0 \cup INSTRS_WITH_STACK_EFFECT_1
                 \cup INSTRS_WITH_STACK_EFFECT_2 \cup INSTRS_WITH_STACK_EFFECT_NEG_1
                 \cup INSTRS_WITH_STACK_EFFECT_NEG_2 \cup INSTRS_WITH_STACK_EFFECT_NEG_3 :
        new_op # opcode }

\* fuzzer.py:514-518: the opcodes generate_random_opcode can return
generate_random_opcode(opcode, options) ==
    { new_op \in options : ~ opcode_resampled(new_op, opcode) }

\* fuzzer.py:507-509: the first set of stack_depth_sets that holds the opcode
stack_depth_set_of(opcode) ==
    LET found == { i \in DOMAIN stack_depth_sets : opcode \in stack_depth_sets[i] }
    IN  IF found = {} THEN {}
        ELSE stack_depth_sets[CHOOSE i \in found : \A j \in found : i <= j]

\* fuzzer.py:488-510: the opcodes randomize_opcode can return
randomize_opcode(opcode) ==
    IF exempt_opcode(opcode) THEN { opcode }
    ELSE IF stack_depth_set_of(opcode) # {}
         THEN generate_random_opcode(opcode, stack_depth_set_of(opcode))
         ELSE { opcode }

\* every opcode the fuzzer's sets name, and two they do not
Opcodes ==
    INSTRS_WITH_OPARG_IN_CONSTS \cup INSTRS_WITH_OPARG_IN_VARNAMES
    \cup INSTRS_WITH_OPARG_IN_NAMES \cup INSTRS_WITH_OPARG_IN_CLOSURE
    \cup INSTRS_WITH_BRANCHES \cup INSTRS_WITH_OPARG_AFFECTING_STACK
    \cup UNION { stack_depth_sets[i] : i \in DOMAIN stack_depth_sets }
    \cup { "COMPARE_OP", "SET_LINENO" }


-----------------------------------------------------------------------------
(* Tables.  pyassem.IndexedSet is not among the sources: it is modelled    *)
(* from the specification's ordered unique table (insert-or-lookup that    *)
(* returns the existing index or appends; explicit key deletion).          *)

EmptyTable == [k \in {} |-> 0]

\* len(table)
Size(table) == Cardinality(DOMAIN table)

\* del table.keys[key] / del consts[key]  (KeyError when the key is absent)
Delete(table, key) == [k \in (DOMAIN table) \ {key} |-> table[k]]

\* table[key] = index
Store(table, key, index) ==
    [k \in (DOMAIN table) \cup {key} |-> IF k = key THEN index ELSE table[k]]

\* IndexedSet.get_index: the table after the call
get_index_table(table, item) ==
    IF item \in DOMAIN table THEN table ELSE Store(table, item, Size(table))

\* IndexedSet.get_index: the index returned
get_index(table, item) ==
    IF item \in DOMAIN table THEN table[item] ELSE Size(table)

\* IndexedSet(iterable) for a sequence of distinct items
IndexedSet(items) == [k \in { items[i] : i \in DOMAIN items } |->
                        (CHOOSE i \in DOMAIN items : items[i] = k) - 1]

-----------------------------------------------------------------------------
(* get_const_key, fuzzer.py:592-603.  A key is the tuple the function     *)
(* returns: << type, value >>, for a float << type, value, sign >>, for a *)
(* tuple or frozenset << type, value, keys of the items >>.  Complex      *)
(* constants are not among the modelled values.                           *)

\* the number a float or an int stands for
Number(value) == IF value.ty = "float" THEN value.sign * value.n ELSE value.n

\* Python's == on the modelled values: numbers compare by value (so
\* 0 == 0.0 == -0.0), tuples item by item, frozensets as sets
RECURSIVE PyEq(_, _)
PyEq(a, b) ==
    IF a.ty \in { "int", "float" } /\ b.ty \in { "int", "float" }
    THEN Number(a) = Number(b)
    ELSE IF a.ty # b.ty
    THEN FALSE
    ELSE IF a.ty = "tuple"
    THEN /\ Len(a.items) = Len(b.items)
         /\ \A i \in DOMAIN a.items : PyEq(a.items[i], b.items[i])
    ELSE IF a.ty = "frozenset"
    THEN /\ \A i \in DOMAIN a.items : \E j \in DOMAIN b.items : PyEq(a.items[i], b.items[j])
         /\ \A j \in DOMAIN b.items : \E i \in DOMAIN a.items : PyEq(a.items[i], b.items[j])
    ELSE a = b

\* pyassem.sign(value): math.copysign(1.0, value)
sign(value) == Float(value.sign, 1)

\* the key made of type and value alone
get_const_key_of_value_only(value) == << value.ty, value >>

RECURSIVE get_const_key(_)
get_const_key(value) ==
    IF value.ty = "float"
    THEN << value.ty, value, sign(value) >>
    ELSE IF value.ty \in { "tuple", "frozenset" }
         THEN << value.ty, value,
                 [i \in DOMAIN value.items |-> get_const_key(value.items[i])] >>
         ELSE << value.ty, value >>

\* Python's == on two keys (the comparison a dict makes of its keys)
RECURSIVE KeyEq(_, _)
KeyEq(key, other) ==
    /\ Len(key) = Len(other)
    /\ key[1] = other[1]
    /\ PyEq(key[2], other[2])
    /\ Len(key) > 2 =>
          IF key[1] = "float"
          THEN PyEq(key[3], other[3])
          ELSE /\ Len(key[3]) = Len(other[3])
               /\ \A i \in DOMAIN key[3] : KeyEq(key[3][i], other[3][i])

-----------------------------------------------------------------------------
(* The random generators, fuzzer.py:455-484, as the sets of values a call  *)
(* can return.  A draw equal to the original is thrown away and repeated.  *)

\* the generators without the test for equality with the original
resampled_never(random_value, original) == FALSE

\* fuzzer.py:475 and fuzzer.py:482: the draw is thrown away and repeated
resampled(random_value, original) == random_value = original

\* fuzzer.py:468-477
generate_random_string(original, lower, upper) ==
    { random_str \in { Str(chars) : chars \in
                         UNION { random_strings(newlen) : newlen \in randint(lower, upper) } } :
        ~ resampled(random_str, original) }

\* fuzzer.py:480-484
generate_random_integer(original, lower, upper) ==
    { random_int \in { Int_(i) : i \in randint(lower, upper) } :
        ~ resampled(random_int, original) }

\* the sequences that list each value of the set once
Orders(values) ==
    { order \in [1..Cardinality(values) -> values] :
        { order[i] : i \in DOMAIN order } = values }

\* frozenset(iterable): an item equal to an earlier one is dropped; the
\* object built iterates the items it holds in an order of its own
frozenset(items) ==
    LET held == { items[i] : i \in { k \in DOMAIN items :
                     \A j \in 1..(k - 1) : ~PyEq(items[j], items[k]) } }
    IN  { Frozenset(order) : order \in Orders(held) }

\* fuzzer.py:455-465: the values randomize_variable can return
RECURSIVE randomize_variable(_)
randomize_variable(var) ==
    IF var.ty = "str"
    THEN generate_random_string(var, STR_LEN_LOWER_BOUND, STR_LEN_UPPER_BOUND)
    ELSE IF var.ty = "int"
         THEN generate_random_integer(var, INT_LOWER_BOUND, INT_UPPER_BOUND)
         ELSE IF var.ty \in { "tuple", "frozenset" }
              THEN LET each == [i \in DOMAIN var.items |-> randomize_variable(var.items[i])]
                       drawn == { items \in [DOMAIN var.items -> UNION { each[i] : i \in DOMAIN each }] :
                                    \A i \in DOMAIN items : items[i] \in each[i] }
                   IN  IF var.ty = "tuple"
                       THEN { Tuple(items) : items \in drawn }
                       ELSE UNION { frozenset(items) : items \in drawn }
              ELSE { var }

\* generate_random_ioparg drawing a new ioparg whatever the opcode
generate_random_ioparg_of_any_opcode(opcode, ioparg) ==
    { v.n : v \in generate_random_integer(Int_(ioparg), OPARG_LOWER_BOUND, OPARG_UPPER_BOUND) }

\* fuzzer.py:443-452: the encoded operands generate_random_ioparg can return
generate_random_ioparg(opcode, ioparg) ==
    IF \/ opcode \in INSTRS_WITH_BRANCHES
       \/ opcode \in INSTRS_WITH_OPARG_AFFECTING_STACK
       \/ opcode \in INSTRS_WITH_OPARG_IN_CONSTS
    THEN { ioparg }
    ELSE IF opcode = "COMPARE_OP"
         THEN { v.n : v \in generate_random_integer(Int_(ioparg), 0, CMP_OP_LENGTH) }
         ELSE { v.n : v \in generate_random_integer(Int_(ioparg), OPARG_LOWER_BOUND,
                                                     OPARG_UPPER_BOUND) }


-----------------------------------------------------------------------------
(* The graph's tables as one record, so that the functions below can take  *)
(* the tables and give them back.                                          *)

Graph == [names |-> names, varnames |-> varnames, freevars |-> freevars,
          cellvars |-> cellvars, closure |-> closure, consts |-> consts]

\* opcode.CMP_OP, the operators COMPARE_OP encodes (not among the sources)
CMP_OP == << "<", "<=", "==", "!=", ">", ">=", "in", "not in", "is", "is not",
             "exception match", "BAD" >>

\* PyFlowGraph.convertArg is not among the sources.  It is modelled from the
\* specification: the logical operand is converted to its encoded form by an
\* insert-or-lookup in the table the opcode reads; a captured variable is
\* looked up in the free variables first (their indices follow the cell
\* variables), then in the combined closure table.
convertArg(g, opcode, oparg) ==
    IF opcode \in INSTRS_WITH_OPARG_IN_CONSTS
    THEN LET key == get_const_key(oparg)
         IN  [g |-> [g EXCEPT !.consts = get_index_table(g.consts, key)],
              ioparg |-> get_index(g.consts, key)]
    ELSE IF opcode \in INSTRS_WITH_OPARG_IN_NAMES
    THEN [g |-> [g EXCEPT !.names = get_index_table(g.names, oparg)],
          ioparg |-> get_index(g.names, oparg)]
    ELSE IF opcode \in INSTRS_WITH_OPARG_IN_VARNAMES
    THEN [g |-> [g EXCEPT !.varnames = get_index_table(g.varnames, oparg)],
          ioparg |-> get_index(g.varnames, oparg)]
    ELSE IF opcode \in INSTRS_WITH_OPARG_IN_CLOSURE
    THEN IF oparg \in DOMAIN g.freevars
         THEN [g |-> g, ioparg |-> g.freevars[oparg] + Size(g.cellvars)]
         ELSE [g |-> [g EXCEPT !.closure = get_index_table(g.closure, oparg)],
               ioparg |-> get_index(g.closure, oparg)]
    ELSE IF opcode = "COMPARE_OP"
    THEN [g |-> g, ioparg |-> (CHOOSE i \in DOMAIN CMP_OP : Str(<< CMP_OP[i] >>) = oparg) - 1]
    ELSE [g |-> g, ioparg |-> oparg.n]

-----------------------------------------------------------------------------
(* replace_closure_var, replace_name_var, replace_const_var,               *)
(* fuzzer.py:409-440.  Each gives the tables after the call, the index     *)
(* returned, and the exception raised ("" when none).                      *)

\* fuzzer.py:424-429
replace_name_var(name, randomized_name, location) ==
    LET deleted == IF name \in DOMAIN location THEN Delete(location, name) ELSE location
    IN  [table |-> get_index_table(deleted, randomized_name),
         ioparg |-> get_index(deleted, randomized_name)]

\* fuzzer.py:409-421
replace_closure_var(name, randomized_name, ioparg, g) ==
    IF name \in DOMAIN g.freevars
    THEN LET deleted == Delete(g.freevars, name)
         IN  [g |-> [g EXCEPT !.freevars = get_index_table(deleted, randomized_name)],
              ioparg |-> get_index(deleted, randomized_name), exc |-> ""]
    ELSE IF name \in DOMAIN g.cellvars
    THEN LET deleted == Delete(g.cellvars, name)
         IN  [g |-> [g EXCEPT !.cellvars = get_index_table(deleted, randomized_name)],
              ioparg |-> get_index(deleted, randomized_name), exc |-> ""]
    ELSE [g |-> g, ioparg |-> ioparg, exc |-> "KeyError"]

\* fuzzer.py:432-440
replace_const_var(old_key, new_key, table) ==
    IF old_key \in DOMAIN table
    THEN [table |-> Store(Delete(table, old_key), new_key, table[old_key]),
          ioparg |-> table[old_key], exc |-> ""]
    ELSE [table |-> table, ioparg |-> 0, exc |-> "KeyError"]

-----------------------------------------------------------------------------
(* can_replace_oparg, fuzzer.py:524-540 *)

can_replace_oparg(opcode, g) ==
    IF opcode \in INSTRS_WITH_OPARG_IN_CONSTS THEN Size(g.consts) > 1
    ELSE IF opcode \in INSTRS_WITH_OPARG_IN_NAMES THEN Size(g.names) > 1
    ELSE IF opcode \in INSTRS_WITH_OPARG_IN_VARNAMES THEN Size(g.varnames) > 1
    ELSE IF opcode \in INSTRS_WITH_OPARG_IN_CLOSURE THEN Size(g.closure) > 1
    ELSE TRUE

-----------------------------------------------------------------------------
(* generate_oparg_for_randomized_opcode, fuzzer.py:545-587 *)

\* fuzzer.py:555-566: delete the original oparg
delete_original_oparg(original_opcode, oparg, g) ==
    IF original_opcode \in INSTRS_WITH_OPARG_IN_CONSTS
    THEN IF get_const_key(oparg) \in DOMAIN g.consts
         THEN [g |-> [g EXCEPT !.consts = Delete(g.consts, get_const_key(oparg))], exc |-> ""]
         ELSE [g |-> g, exc |-> "KeyError"]
    ELSE IF original_opcode \in INSTRS_WITH_OPARG_IN_NAMES
    THEN IF oparg \in DOMAIN g.names
         THEN [g |-> [g EXCEPT !.names = Delete(g.names, oparg)], exc |-> ""]
         ELSE [g |-> g, exc |-> "KeyError"]
    ELSE IF original_opcode \in INSTRS_WITH_OPARG_IN_VARNAMES
    THEN IF oparg \in DOMAIN g.varnames
         THEN [g |-> [g EXCEPT !.varnames = Delete(g.varnames, oparg)], exc |-> ""]
         ELSE [g |-> g, exc |-> "KeyError"]
    ELSE IF original_opcode \in INSTRS_WITH_OPARG_IN_CLOSURE
    THEN IF oparg \in DOMAIN g.freevars
         THEN [g |-> [g EXCEPT !.freevars = Delete(g.freevars, oparg)], exc |-> ""]
         ELSE IF oparg \in DOMAIN g.cellvars
              THEN [g |-> [g EXCEPT !.cellvars = Delete(g.cellvars, oparg)], exc |-> ""]
              ELSE [g |-> g, exc |-> "KeyError"]
    ELSE [g |-> g, exc |-> ""]

\* fuzzer.py:568-587: the values the new oparg is drawn from
new_oparg_draws(randomized_opcode, oparg) ==
    IF randomized_opcode \in INSTRS_WITH_OPARG_IN_CONSTS
    THEN randomize_variable(oparg)
    ELSE IF \/ randomized_opcode \in INSTRS_WITH_OPARG_IN_NAMES
            \/ randomized_opcode \in INSTRS_WITH_OPARG_IN_VARNAMES
            \/ randomized_opcode \in INSTRS_WITH_OPARG_IN_CLOSURE
         THEN randomize_variable(Str(<< >>))
         ELSE generate_random_integer(Int_(0 - 1), OPARG_LOWER_BOUND, OPARG_UPPER_BOUND)

\* fuzzer.py:568-587: enter the new oparg in the table of the new opcode
insert_new_oparg(randomized_opcode, new_oparg, g) ==
    IF randomized_opcode \in INSTRS_WITH_OPARG_IN_CONSTS
    THEN [g EXCEPT !.consts = Store(g.consts, get_const_key(new_oparg), Size(g.consts))]
    ELSE IF randomized_opcode \in INSTRS_WITH_OPARG_IN_NAMES
    THEN [g EXCEPT !.names = get_index_table(g.names, new_oparg)]
    ELSE IF randomized_opcode \in INSTRS_WITH_OPARG_IN_VARNAMES
    THEN [g EXCEPT !.varnames = get_index_table(g.varnames, new_oparg)]
    ELSE IF randomized_opcode \in INSTRS_WITH_OPARG_IN_CLOSURE
    THEN [g EXCEPT !.freevars = get_index_table(g.freevars, new_oparg)]
    ELSE g

\* fuzzer.py:545-587, for the draw new_oparg
generate_oparg_for_randomized_opcode(original_opcode, randomized_opcode, oparg, new_oparg, g) ==
    LET deleted == delete_original_oparg(original_opcode, oparg, g)
    IN  IF deleted.exc # ""
        THEN [g |-> deleted.g, exc |-> deleted.exc]
        ELSE [g |-> insert_new_oparg(randomized_opcode, new_oparg, deleted.g), exc |-> ""]


-----------------------------------------------------------------------------
(* Fuzzer.randomize_oparg, fuzzer.py:116-165, past the do_not_emit_bytecode *)
(* test and the lookup in oparg_randomizations: the tables after the call,  *)
(* the instruction emitted and the exception raised ("" when none).         *)

\* pyassem.Instruction(opname, oparg, ioparg, target)
Instruction(opname, oparg, ioparg, target) ==
    [opname |-> opname, oparg |-> oparg, ioparg |-> ioparg, target |-> target]

randomize_oparg(opcode, oparg, ioparg, randomized_oparg, random_ioparg, g) ==
    IF opcode \in INSTRS_WITH_OPARG_IN_NAMES
    THEN LET r == replace_name_var(oparg, randomized_oparg, g.names)
         IN  [g |-> [g EXCEPT !.names = r.table], exc |-> "",
              inst |-> Instruction(opcode, randomized_oparg, r.ioparg, None)]
    ELSE IF opcode \in INSTRS_WITH_OPARG_IN_VARNAMES
    THEN LET r == replace_name_var(oparg, randomized_oparg, g.varnames)
         IN  [g |-> [g EXCEPT !.varnames = r.table], exc |-> "",
              inst |-> Instruction(opcode, randomized_oparg, r.ioparg, None)]
    ELSE IF opcode \in INSTRS_WITH_OPARG_IN_CONSTS /\ opcode # "LOAD_CONST"
    THEN LET r == replace_const_var(get_const_key(oparg),
                                    get_const_key(randomized_oparg), g.consts)
         IN  [g |-> [g EXCEPT !.consts = r.table], exc |-> r.exc,
              inst |-> Instruction(opcode, randomized_oparg, r.ioparg, None)]
    ELSE IF opcode \in INSTRS_WITH_OPARG_IN_CLOSURE
    THEN LET r == replace_closure_var(oparg, randomized_oparg, ioparg, g)
         IN  [g |-> r.g, exc |-> r.exc,
              inst |-> Instruction(opcode, randomized_oparg, r.ioparg, None)]
    ELSE [g |-> g, exc |-> "",
          inst |-> Instruction(opcode, oparg, random_ioparg, None)]

\* randomize_oparg drawing afresh without consulting oparg_randomizations
randomized_oparg_draws_fresh(oparg) == randomize_variable(oparg)

\* fuzzer.py:119-123: the replacements the Mutation Record allows for oparg
randomized_oparg_draws(oparg) ==
    IF oparg \in DOMAIN oparg_randomizations
    THEN { oparg_randomizations[oparg] }
    ELSE randomize_variable(oparg)

\* fuzzer.py:164: the encoded operands drawn when the opcode reads no table
random_ioparg_draws(opcode, ioparg) ==
    IF \/ opcode \in INSTRS_WITH_OPARG_IN_NAMES
       \/ opcode \in INSTRS_WITH_OPARG_IN_VARNAMES
       \/ opcode \in INSTRS_WITH_OPARG_IN_CONSTS /\ opcode # "LOAD_CONST"
       \/ opcode \in INSTRS_WITH_OPARG_IN_CLOSURE
    THEN { ioparg }
    ELSE generate_random_ioparg(opcode, ioparg)


-----------------------------------------------------------------------------
(* The inputs of the model *)

Block(number) == [ty |-> "block", s |-> << >>, n |-> number]

\* the identifiers of the compiled program text
Identifiers == { Str(<< "a" >>), Str(<< "b" >>) }

\* the instructions the front end hands to emit: opcode and logical operand
EmitArgs ==
    ({ "LOAD_NAME", "LOAD_FAST", "LOAD_DEREF" } \X Identifiers)
    \cup ({ "DUP_TOP", "POP_TOP", "RETURN_VALUE", "CALL_FUNCTION", "FUNC_CREDENTIAL",
             "LOAD_CONST" } \X { Int_(0) })
    \cup { << "STORE_FAST", Str(<< "a" >>) >>, << "LOAD_CONST", Str(<< "a" >>) >>,
           << "COMPARE_OP", Str(<< "<" >>) >>, << "SET_LINENO", Int_(1) >>,
           << "JUMP_FORWARD", Block(1) >> }

\* the opcodes of EmitArgs: random.choice is followed for these members of a set
SampledOpcodes == { arg[1] : arg \in EmitArgs }

\* random.randint(1, 100) of fuzzer.py:80, followed on both sides of the chance
PercentDraws == { INSTR_RANDOMIZATION_CHANCE, INSTR_RANDOMIZATION_CHANCE + 1 }

\* the parameter lists a compiled unit starts with (PyFlowGraph's args)
ArgLists == { << >>, << Str(<< "a" >>), Str(<< "b" >>) >> }

\* the cell and free variables a compiled unit starts with (setCellVars, setFreeVars)
ClosureLists == { << << >>, << >> >>, << << Str(<< "a" >>) >>, << Str(<< "b" >>) >> >> }

NoDraw == [percent |-> 0, replaced |-> FALSE, can_replace |-> FALSE]

-----------------------------------------------------------------------------
(* Fuzzer.emit, fuzzer.py:61-113.  graph.maybeEmitSetLineno (line 62)    *)
(* belongs to the line-number bookkeeping of pyassem and is left out.    *)
(* A KeyError raised by a deletion leaves emit, compile and              *)
(* fuzzer_compile (which catches SyntaxError and VerificationError       *)
(* only): the trial ends with pc = "raised".  With the bounds above no   *)
(* generator is handed a domain of one value, so none of the draws below *)
(* is from an empty set.                                                 *)

\* fuzzer.py:80: random.randint(1, 100), the percent draws there are
PercentRange == randint(1, 100)

\* the chance test passing whatever is drawn
within_chance_always(percent) == TRUE

\* fuzzer.py:80: the chance test of the substitution
within_chance(percent) == percent <= INSTR_RANDOMIZATION_CHANCE

\* the tables, the instruction list and the record after one emit call
EmitEnds(opcode, oparg, path, g, emitted, record, drawn, ioparg, next_pc) ==
    /\ names' = g.names
    /\ varnames' = g.varnames
    /\ freevars' = g.freevars
    /\ cellvars' = g.cellvars
    /\ closure' = g.closure
    /\ consts' = g.consts
    /\ insts' = insts \o emitted
    /\ oparg_randomizations' = record
    /\ calls' = Append(calls, [opcode |-> opcode, oparg |-> oparg, path |-> path,
                               inst |-> IF emitted = << >> THEN 0 ELSE Len(insts) + 1])
    /\ draw' = drawn
    /\ first_inst_lineno' =
          IF next_pc = "compiling" /\ path # "placeholder"
             /\ opcode = "SET_LINENO" /\ first_inst_lineno = 0
          THEN ioparg ELSE first_inst_lineno
    /\ pc' = next_pc
    /\ UNCHANGED << do_not_emit_bytecode, cinderjit, code, trial, result, rnd, rop, gck >>

\* fuzzer.py:90-107: the opcode is substituted
EmitSubstituted(opcode, oparg, randomized_opcode, converted, drawn) ==
    \E new_oparg \in new_oparg_draws(randomized_opcode, oparg) :
        LET new == generate_oparg_for_randomized_opcode(
                       opcode, randomized_opcode, oparg, new_oparg, converted.g)
            again == convertArg(new.g, randomized_opcode, new_oparg)
        IN  IF new.exc # ""
            THEN EmitEnds(opcode, oparg, new.exc, new.g, << >>, oparg_randomizations,
                          drawn, converted.ioparg, "raised")
            ELSE EmitEnds(opcode, oparg, "substituted", again.g,
                          << Instruction(randomized_opcode, new_oparg, again.ioparg, None) >>,
                          oparg_randomizations, drawn, again.ioparg, "compiling")

\* fuzzer.py:108-110 and 116-165: the oparg is randomized
EmitRandomized(opcode, oparg, converted, drawn) ==
    IF do_not_emit_bytecode
    THEN EmitEnds(opcode, oparg, "suppressed", converted.g, << >>, oparg_randomizations,
                  drawn, converted.ioparg, "compiling")
    ELSE \E randomized_oparg \in randomized_oparg_draws(oparg),
            random_ioparg \in random_ioparg_draws(opcode, converted.ioparg) :
            LET r == randomize_oparg(opcode, oparg, converted.ioparg, randomized_oparg,
                                     random_ioparg, converted.g)
                record == Store(oparg_randomizations, oparg, randomized_oparg)
            IN  IF r.exc # ""
                THEN EmitEnds(opcode, oparg, r.exc, r.g, << >>, record, drawn,
                              converted.ioparg, "raised")
                ELSE EmitEnds(opcode, oparg, "randomized", r.g, << r.inst >>, record,
                              drawn, converted.ioparg, "compiling")

\* the block branch returning before it emits
EmitPlaceholder_without_emit(opcode, oparg) ==
    EmitEnds(opcode, oparg, "placeholder", Graph, << >>,
             oparg_randomizations, NoDraw, 0, "compiling")

\* the block branch noting the block in oparg_randomizations, as randomize_oparg
\* does with the opargs it is handed
EmitPlaceholder_recorded(opcode, oparg) ==
    EmitEnds(opcode, oparg, "placeholder", Graph,
             IF do_not_emit_bytecode THEN << >>
             ELSE << Instruction(opcode, Int_(0), 0, oparg) >>,
             Store(oparg_randomizations, oparg, oparg), NoDraw, 0, "compiling")

\* fuzzer.py:64-68: an instruction whose oparg is a block
EmitPlaceholder(opcode, oparg) ==
    EmitEnds(opcode, oparg, "placeholder", Graph,
             IF do_not_emit_bytecode THEN << >>
             ELSE << Instruction(opcode, Int_(0), 0, oparg) >>,
             oparg_randomizations, NoDraw, 0, "compiling")

\* random.choice of fuzzer.py:515, followed for the sampled opcodes
opcode_draws(opcode) ==
    { randomized_opcode \in randomize_opcode(opcode) :
        randomized_opcode = opcode \/ randomized_opcode \in SampledOpcodes }

Emit ==
    /\ pc = "compiling"
    /\ Len(calls) < MaxEmits
    /\ \E arg \in EmitArgs :
          LET opcode == arg[1]
              oparg == arg[2]
          IN  IF opcode # "SET_LINENO" /\ oparg.ty = "block"
              THEN EmitPlaceholder(opcode, oparg)
              ELSE LET converted == convertArg(Graph, opcode, oparg)
                   IN  \E randomized_opcode \in opcode_draws(opcode),
                          percent \in PercentDraws :
                          LET drawn == [percent |-> percent,
                                        replaced |-> randomized_opcode # opcode,
                                        can_replace |-> can_replace_oparg(opcode, converted.g)]
                          IN  IF /\ within_chance(percent)
                                 /\ randomized_opcode # opcode
                                 /\ can_replace_oparg(opcode, converted.g)
                              THEN EmitSubstituted(opcode, oparg, randomized_opcode,
                                                   converted, drawn)
                              ELSE EmitRandomized(opcode, oparg, converted, drawn)

\* the front end enters or leaves code it compiles without emitting
\* (graph.do_not_emit_bytecode is switched by the code generator)
SetDoNotEmit ==
    /\ pc = "compiling"
    /\ Len(calls) < MaxEmits
    /\ do_not_emit_bytecode' = ~ do_not_emit_bytecode
    /\ UNCHANGED << names, varnames, freevars, cellvars, closure, consts,
                    oparg_randomizations, insts, calls, first_inst_lineno, draw,
                    pc, cinderjit, code, trial, result, rnd, rop, gck >>


-----------------------------------------------------------------------------
(* fuzzer_compile, fuzzer.py:370-389.  The verifier and the JIT are      *)
(* external: their answer is a choice.  types.FunctionType (line 379) is *)
(* taken to succeed.                                                     *)

\* the code object compile() returns for the instructions emitted
CodeObject == [ty |-> "code", s |-> << >>, n |-> Len(insts)]

NoTrial == [compiled |-> "not invoked",
            validated |-> "not invoked", validated_unit |-> None,
            jit |-> "not invoked", jit_unit |-> None]

\* the SyntaxError handler reporting a clean compile
syntax_error_result_as_success == << None, "SUCCESS" >>

\* fuzzer.py:385-386
syntax_error_result == << None, "SYNTAX_ERROR" >>
\* the VerificationError handler giving up the rejected unit
verification_error_result_without_unit(unit) == << None, "VERIFICATION_ERROR" >>

\* fuzzer.py:387-388
verification_error_result(unit) == << unit, "VERIFICATION_ERROR" >>
\* fuzzer.py:383-384
jit_error_result(unit) == << unit, "ERROR_CAUGHT_BY_JIT" >>
\* fuzzer.py:389
success_result(unit) == << unit, "SUCCESS" >>

\* the JIT step taken whether or not the cinderjit import succeeded
jit_tried_always(available) == TRUE

\* fuzzer.py:380: the JIT is tried when the cinderjit module was imported
jit_tried(available) == available

\* fuzzer.py:373-375: compile() parses the wrapped text
Compile ==
    /\ pc = "start"
    /\ \E parsed \in BOOLEAN :
          IF parsed
          THEN /\ pc' = "compiling"
               /\ trial' = [trial EXCEPT !.compiled = "compiling"]
               /\ UNCHANGED result
          ELSE /\ pc' = "returned"
               /\ trial' = [trial EXCEPT !.compiled = "SyntaxError"]
               /\ result' = syntax_error_result
    /\ UNCHANGED << unitVars, cinderjit, code, rnd, rop, gck >>

\* fuzzer.py:375: compile() returns the code object
CompileReturns ==
    /\ pc = "compiling"
    /\ code' = CodeObject
    /\ trial' = [trial EXCEPT !.compiled = "compiled"]
    /\ pc' = "validate"
    /\ UNCHANGED << unitVars, cinderjit, result, rnd, rop, gck >>

\* fuzzer.py:377-380, 387-389: Verifier.validate_code(code)
ValidateCode ==
    /\ pc = "validate"
    /\ \E verdict \in { "passed", "VerificationError" } :
          /\ trial' = [trial EXCEPT !.validated = verdict, !.validated_unit = code]
          /\ IF verdict = "VerificationError"
             THEN /\ pc' = "returned"
                  /\ result' = verification_error_result(code)
             ELSE IF jit_tried(cinderjit)
                  THEN /\ pc' = "force_compile"
                       /\ UNCHANGED result
                  ELSE /\ pc' = "returned"
                       /\ result' = success_result(code)
    /\ UNCHANGED << unitVars, cinderjit, code, rnd, rop, gck >>

\* fuzzer.py:381-384, 389: cinderjit.force_compile(func)
ForceCompile ==
    /\ pc = "force_compile"
    /\ \E outcome \in { "compiled", "RuntimeError" } :
          /\ trial' = [trial EXCEPT !.jit = outcome, !.jit_unit = code]
          /\ result' = IF outcome = "RuntimeError"
                       THEN jit_error_result(code)
                       ELSE success_result(code)
    /\ pc' = "returned"
    /\ UNCHANGED << unitVars, cinderjit, code, rnd, rop, gck >>

-----------------------------------------------------------------------------
(* One trial: fuzzer_compile compiling one unit through Fuzzer.emit *)

RndIdle == [fn |-> "", entry |-> "", original |-> None, lower |-> 0, upper |-> 0,
            pc |-> "idle", depth |-> 0, result |-> None]

RopIdle == [opcode |-> "", pc |-> "idle", result |-> ""]

GckIdle == [pc |-> "idle", a |-> None, b |-> None, key_a |-> << >>, key_b |-> << >>]

\* Fuzzer.__init__ (fuzzer.py:49-51) on a fresh PyFlowGraph
UnitInit(args, cells, frees) ==
    /\ names = EmptyTable
    /\ varnames = IndexedSet(args)
    /\ freevars = IndexedSet(frees)
    /\ cellvars = IndexedSet(cells)
    /\ closure = IndexedSet(cells \o frees)
    /\ consts = EmptyTable
    /\ oparg_randomizations = EmptyTable
    /\ insts = << >>
    /\ calls = << >>
    /\ do_not_emit_bytecode = FALSE
    /\ first_inst_lineno = 0
    /\ draw = NoDraw

Init ==
    /\ \E args \in ArgLists, cl \in ClosureLists : UnitInit(args, cl[1], cl[2])
    /\ pc = "start"
    /\ cinderjit \in BOOLEAN
    /\ code = None
    /\ trial = NoTrial
    /\ result = << None, "" >>
    /\ rnd = RndIdle
    /\ rop = RopIdle
    /\ gck = GckIdle

Next ==
    \/ Compile
    \/ Emit
    \/ SetDoNotEmit
    \/ CompileReturns
    \/ ValidateCode
    \/ ForceCompile

Spec == Init /\ [][Next]_vars


-----------------------------------------------------------------------------
(* randomize_opcode called on its own, for every opcode *)

RandomizeOpcode ==
    /\ rop.pc = "call"
    /\ \E new_op \in randomize_opcode(rop.opcode) :
          rop' = [rop EXCEPT !.pc = "returned", !.result = new_op]
    /\ UNCHANGED << unitVars, driverVars, rnd, gck >>

DriverIdle ==
    /\ pc = "idle"
    /\ cinderjit = FALSE
    /\ code = None
    /\ trial = NoTrial
    /\ result = << None, "" >>

InitOpcode ==
    /\ UnitInit(<< >>, << >>, << >>)
    /\ DriverIdle
    /\ rnd = RndIdle
    /\ gck = GckIdle
    /\ rop \in [opcode : Opcodes, pc : { "call" }, result : { "" }]

NextOpcode == RandomizeOpcode

SpecOpcode == InitOpcode /\ [][NextOpcode]_vars

-----------------------------------------------------------------------------
(* randomize_variable, generate_random_string and generate_random_integer  *)
(* called on their own, one draw per step.  rnd.depth counts the calls     *)
(* that are waiting for the call they made.                                *)

\* the constants that are not containers
ConstAtoms == { Int_(0), Int_(1), Float(1, 0), Float(-1, 0), Str(<< "a" >>) }

\* the sequences of no, one or two of the values
UpToTwo(values) ==
    { << >> } \cup { << v >> : v \in values } \cup { << v, w >> : v, w \in values }

\* no two items are equal (what a frozenset holds)
Distinct(items) == \A i, j \in DOMAIN items : i # j => ~PyEq(items[i], items[j])

\* the tuples and frozensets of up to two of the values
Containers(values) ==
    { Tuple(items) : items \in UpToTwo(values) }
    \cup { Frozenset(items) : items \in { s \in UpToTwo(values) : Distinct(s) } }

\* the tuples and frozensets of one of the values
Wrapped(values) ==
    { Tuple(<< v >>) : v \in values } \cup { Frozenset(<< v >>) : v \in values }

\* the constants nested up to the given depth
RECURSIVE ConstValues(_)
ConstValues(depth) ==
    IF depth = 0 THEN ConstAtoms
    ELSE IF depth = 1 THEN ConstAtoms \cup Containers(ConstAtoms)
    ELSE LET inner == ConstValues(depth - 1) IN inner \cup Wrapped(inner)

\* the integers handed to the generators
IntInputs == INT_LOWER_BOUND..INT_UPPER_BOUND

\* the string lengths handed to generate_random_string
LenInputs == STR_LEN_LOWER_BOUND..STR_LEN_UPPER_BOUND

\* the strings handed to the generators
StrInputs == { Str(chars) : chars \in UNION { random_strings(l) : l \in LenInputs } }

\* fuzzer.py:476 and fuzzer.py:483: the function calls itself again
Recurse ==
    IF rnd.depth < RecursionLimit
    THEN rnd' = [rnd EXCEPT !.depth = rnd.depth + 1]
    ELSE rnd' = [rnd EXCEPT !.pc = "RecursionError"]

\* fuzzer.py:455-465
RandomizeVariable ==
    /\ rnd.pc = "call"
    /\ rnd.fn = "randomize_variable"
    /\ IF rnd.original.ty = "str"
       THEN rnd' = [rnd EXCEPT !.fn = "generate_random_string",
                               !.lower = STR_LEN_LOWER_BOUND,
                               !.upper = STR_LEN_UPPER_BOUND]
       ELSE IF rnd.original.ty = "int"
            THEN rnd' = [rnd EXCEPT !.fn = "generate_random_integer",
                                    !.lower = INT_LOWER_BOUND,
                                    !.upper = INT_UPPER_BOUND]
            ELSE \E randomized \in randomize_variable(rnd.original) :
                    rnd' = [rnd EXCEPT !.pc = "returned", !.result = randomized]
    /\ UNCHANGED << unitVars, driverVars, rop, gck >>

\* fuzzer.py:480-484
GenerateRandomInteger ==
    /\ rnd.pc = "call"
    /\ rnd.fn = "generate_random_integer"
    /\ IF randint(rnd.lower, rnd.upper) = {}
       THEN rnd' = [rnd EXCEPT !.pc = "ValueError"]
       ELSE \E i \in randint(rnd.lower, rnd.upper) :
               IF resampled(Int_(i), rnd.original)
               THEN Recurse
               ELSE rnd' = [rnd EXCEPT !.pc = "returned", !.result = Int_(i)]
    /\ UNCHANGED << unitVars, driverVars, rop, gck >>

\* fuzzer.py:468-477
GenerateRandomString ==
    /\ rnd.pc = "call"
    /\ rnd.fn = "generate_random_string"
    /\ IF randint(rnd.lower, rnd.upper) = {}
       THEN rnd' = [rnd EXCEPT !.pc = "ValueError"]
       ELSE \E newlen \in randint(rnd.lower, rnd.upper) :
               \E chars \in random_strings(newlen) :
                  IF resampled(Str(chars), rnd.original)
                  THEN Recurse
                  ELSE rnd' = [rnd EXCEPT !.pc = "returned", !.result = Str(chars)]
    /\ UNCHANGED << unitVars, driverVars, rop, gck >>

InitRand ==
    /\ UnitInit(<< >>, << >>, << >>)
    /\ DriverIdle
    /\ rop = RopIdle
    /\ gck = GckIdle
    /\ \E fn \in { "randomize_variable", "generate_random_string",
                   "generate_random_integer" } :
          \E original \in (IF fn = "generate_random_string" THEN StrInputs
                           ELSE IF fn = "generate_random_integer"
                                THEN { Int_(i) : i \in IntInputs }
                                ELSE StrInputs \cup { Int_(i) : i \in IntInputs } \cup { None }
                                     \cup ConstValues(MaxDepth)),
             lower, upper \in (IF fn = "generate_random_string" THEN LenInputs
                               ELSE IF fn = "generate_random_integer" THEN IntInputs
                                    ELSE { 0 }) :
             rnd = [fn |-> fn, entry |-> fn, original |-> original, lower |-> lower,
                    upper |-> upper, pc |-> "call", depth |-> 0, result |-> None]

NextRand ==
    \/ RandomizeVariable
    \/ GenerateRandomInteger
    \/ GenerateRandomString

SpecRand == InitRand /\ [][NextRand]_vars

\* every call that can take a step does take it
SpecRandFair == SpecRand /\ WF_vars(NextRand)

-----------------------------------------------------------------------------
(* get_const_key alone: the keys of two constants *)

\* fuzzer.py:592-603
GetConstKey ==
    /\ gck.pc = "call"
    /\ gck' = [gck EXCEPT !.pc = "returned",
                          !.key_a = get_const_key(gck.a),
                          !.key_b = get_const_key(gck.b)]
    /\ UNCHANGED << unitVars, driverVars, rnd, rop >>

InitConstKey ==
    /\ UnitInit(<< >>, << >>, << >>)
    /\ DriverIdle
    /\ rnd = RndIdle
    /\ rop = RopIdle
    /\ \E a, b \in ConstValues(MaxDepth) :
          gck = [pc |-> "call", a |-> a, b |-> b, key_a |-> << >>, key_b |-> << >>]

NextConstKey == GetConstKey

SpecConstKey == InitConstKey /\ [][NextConstKey]_vars


-----------------------------------------------------------------------------
(* Properties of randomize_opcode and of the opcode sets (SpecOpcode) *)

\* C1: whenever randomize_opcode returns an opcode different from the one it
\* was given, the two opcodes are members of the same fixed stack-effect set
\* (delta 0, +1, +2, -1, -2 or -3), and the original is a member of one.
C1_SameStackEffectClass ==
    (rop.pc = "returned" /\ rop.result # rop.opcode) =>
        /\ \E i \in DOMAIN stack_depth_sets : rop.opcode \in stack_depth_sets[i]
        /\ \A i \in DOMAIN stack_depth_sets :
              rop.opcode \in stack_depth_sets[i] <=> rop.result \in stack_depth_sets[i]

\* a substitution happened: STORE_ATTR was replaced by another opcode
C1_Witness ==
    /\ rop.pc = "returned"
    /\ rop.opcode = "STORE_ATTR"
    /\ rop.result = "MAP_ADD"

\* the six fixed-delta sets, the variable-effect set and the branch set
stack_effect_classes ==
    stack_depth_sets \o << INSTRS_WITH_OPARG_AFFECTING_STACK, INSTRS_WITH_BRANCHES >>

\* C7: the stack-effect classes are pairwise disjoint: the opcode handed to
\* randomize_opcode is a member of at most one of the six fixed-delta sets,
\* the variable-effect set and the branch set.
C7_ClassesDisjoint ==
    rop.pc = "call" =>
        Cardinality({ i \in DOMAIN stack_effect_classes :
                        rop.opcode \in stack_effect_classes[i] }) <= 1

-----------------------------------------------------------------------------
(* Properties of the random generators (SpecRand, SpecRandFair) *)

\* C8: a value returned by generate_random_string or generate_random_integer
\* (called directly or through randomize_variable) differs from the original
\* and lies within the bounds of the call: an integer between lower and
\* upper, a string of a length between lower and upper.
C8_ReturnedValueDiffersAndInBounds ==
    (rnd.pc = "returned" /\ rnd.fn # "randomize_variable") =>
        /\ rnd.result # rnd.original
        /\ rnd.fn = "generate_random_integer" =>
              rnd.lower <= rnd.result.n /\ rnd.result.n <= rnd.upper
        /\ rnd.fn = "generate_random_string" =>
              rnd.lower <= Len(rnd.result.s) /\ Len(rnd.result.s) <= rnd.upper

\* randomize_variable on an integer drew the original first, then returned
C8_Witness ==
    /\ rnd.pc = "returned"
    /\ rnd.entry = "randomize_variable"
    /\ rnd.fn = "generate_random_integer"
    /\ rnd.depth >= 1

\* the only value the call can draw is the original
SingletonDomain ==
    /\ rnd.pc = "call"
    /\ \/ /\ rnd.fn = "generate_random_integer"
          /\ rnd.lower = rnd.original.n
          /\ rnd.upper = rnd.original.n
       \/ /\ rnd.fn = "generate_random_string"
          /\ rnd.lower = 0
          /\ rnd.upper = 0
          /\ rnd.original = Str(<< >>)

\* C9: given a domain of size 1 whose only element is the original value,
\* the randomizer does not hang: the call returns.
C9_SingletonDomainReturns == SingletonDomain ~> (rnd.pc = "returned")


-----------------------------------------------------------------------------
(* Properties of Fuzzer.emit and of the tables (Spec) *)

TableResident(opcode) ==
    \/ opcode \in INSTRS_WITH_OPARG_IN_CONSTS
    \/ opcode \in INSTRS_WITH_OPARG_IN_NAMES
    \/ opcode \in INSTRS_WITH_OPARG_IN_VARNAMES
    \/ opcode \in INSTRS_WITH_OPARG_IN_CLOSURE

\* the opcodes whose oparg randomize_oparg replaces in a table
OpargReplaced(opcode) == TableResident(opcode) /\ opcode # "LOAD_CONST"

\* this step is an emit call, and LatestCall is the call made
EmitStep == Len(calls') = Len(calls) + 1
LatestCall == calls'[Len(calls')]
LatestInstruction == insts'[LatestCall.inst]

NonEmpty(table) == DOMAIN table # {}

\* C2: immediately after an opcode substitution whose original opcode has a
\* table-resident operand, the table the original operand was deleted from
\* (consts, names, varnames, and for a captured variable freevars or
\* cellvars) holds at least one entry.
C2_NoEmptyTableAfterSubstitution ==
    [][ (EmitStep /\ LatestCall.path = "substituted" /\ TableResident(LatestCall.opcode)) =>
          /\ LatestCall.opcode \in INSTRS_WITH_OPARG_IN_CONSTS => NonEmpty(consts')
          /\ LatestCall.opcode \in INSTRS_WITH_OPARG_IN_NAMES => NonEmpty(names')
          /\ LatestCall.opcode \in INSTRS_WITH_OPARG_IN_VARNAMES => NonEmpty(varnames')
          /\ LatestCall.opcode \in INSTRS_WITH_OPARG_IN_CLOSURE =>
                IF LatestCall.oparg \in DOMAIN freevars
                THEN NonEmpty(freevars')
                ELSE NonEmpty(cellvars') ]_vars

\* the calls that emitted an instruction for a table-resident opcode
ResidentCalls == { i \in DOMAIN calls : calls[i].inst # 0 /\ TableResident(calls[i].opcode) }

\* C3: within one compiled unit, two emitted instructions that reference the
\* same original table-resident operand value carry the same replacement
\* operand value, whichever of the substitution and the operand-randomization
\* path emitted them.
C3_ConsistentRenaming ==
    \A i, j \in ResidentCalls :
        calls[i].oparg = calls[j].oparg =>
            insts[calls[i].inst].oparg = insts[calls[j].inst].oparg

\* the calls whose oparg was replaced by randomize_oparg
RandomizedCalls ==
    { i \in DOMAIN calls : calls[i].path = "randomized" /\ OpargReplaced(calls[i].opcode) }

\* C3 (amended): within one compiled unit, two instructions emitted through
\* the operand-randomization path for opcodes whose operand is replaced
\* (names, local slots, captured slots, constant pool other than LOAD_CONST)
\* that reference the same original operand value carry the same replacement
\* operand value.
C3_ConsistentRenamingOfRandomizedOpargs ==
    \A i, j \in RandomizedCalls :
        calls[i].oparg = calls[j].oparg =>
            insts[calls[i].inst].oparg = insts[calls[j].inst].oparg

\* the same name was randomized twice, through two different opcodes
C3_Witness ==
    \E i, j \in RandomizedCalls :
        /\ i < j
        /\ calls[i].oparg = calls[j].oparg
        /\ calls[i].opcode = "LOAD_NAME"
        /\ calls[j].opcode = "LOAD_FAST"
        /\ insts[calls[j].inst].oparg = oparg_randomizations[calls[j].oparg]

Injective(table) ==
    \A k1, k2 \in DOMAIN table : table[k1] = table[k2] => k1 = k2

\* C4: after any sequence of emit operations on a compiled unit whose tables
\* may already hold entries, no two distinct keys of the same table (names,
\* local slots, free slots, cell slots, constant pool) map to the same index.
C4_NoTwoKeysShareAnIndex ==
    /\ Injective(names)
    /\ Injective(varnames)
    /\ Injective(freevars)
    /\ Injective(cellvars)
    /\ Injective(consts)

\* new_key holds the index old_key held (or was about to be given) in before,
\* and every other entry of before is in after with its index
ReplacedInPlace(before, after, old_key, new_key) ==
    /\ new_key \in DOMAIN after
    /\ after[new_key] = get_index(before, old_key)
    /\ \A k \in (DOMAIN before) \ { old_key } : k \in DOMAIN after /\ after[k] = before[k]

\* C5: when operand-only randomization replaces a table-resident operand, the
\* new key occupies exactly the index the original key held before the
\* replacement, and every other entry of that table keeps its key and index.
C5_ReplacedInPlace ==
    [][ (EmitStep /\ LatestCall.path = "randomized" /\ OpargReplaced(LatestCall.opcode)) =>
          /\ LatestCall.opcode \in INSTRS_WITH_OPARG_IN_NAMES =>
                ReplacedInPlace(names, names', LatestCall.oparg, LatestInstruction.oparg)
          /\ LatestCall.opcode \in INSTRS_WITH_OPARG_IN_VARNAMES =>
                ReplacedInPlace(varnames, varnames', LatestCall.oparg, LatestInstruction.oparg)
          /\ LatestCall.opcode \in INSTRS_WITH_OPARG_IN_CONSTS =>
                ReplacedInPlace(consts, consts', get_const_key(LatestCall.oparg),
                                get_const_key(LatestInstruction.oparg))
          /\ LatestCall.opcode \in INSTRS_WITH_OPARG_IN_CLOSURE =>
                IF LatestCall.oparg \in DOMAIN freevars
                THEN ReplacedInPlace(freevars, freevars', LatestCall.oparg,
                                     LatestInstruction.oparg)
                ELSE ReplacedInPlace(cellvars, cellvars', LatestCall.oparg,
                                     LatestInstruction.oparg) ]_vars

GapFree(table) == { table[k] : k \in DOMAIN table } = 0..(Size(table) - 1)

\* C6: after an opcode substitution that deletes the original operand's table
\* entry and inserts the synthesized operand, the indices of every table
\* (names, local slots, free slots, cell slots, constant pool) are exactly
\* 0..n-1 for a table of n entries.
C6_GapFreeAfterSubstitution ==
    [][ (EmitStep /\ LatestCall.path = "substituted" /\ TableResident(LatestCall.opcode)) =>
          /\ GapFree(names')
          /\ GapFree(varnames')
          /\ GapFree(freevars')
          /\ GapFree(cellvars')
          /\ GapFree(consts') ]_vars

-----------------------------------------------------------------------------
(* Properties of fuzzer_compile (Spec) *)

\* C10: whenever the verifier rejects the compiled unit, fuzzer_compile
\* returns the pair (unit, VERIFICATION_ERROR) with the unit not None and
\* the JIT is not invoked in that trial; the JIT is only ever invoked on a
\* unit whose validation has passed.
C10_RejectedUnitReturnedWithoutJit ==
    /\ trial.validated = "VerificationError" =>
          /\ pc = "returned"
          /\ result = << code, "VERIFICATION_ERROR" >>
          /\ code # None
          /\ trial.jit = "not invoked"
    /\ trial.jit # "not invoked" =>
          /\ trial.validated = "passed"
          /\ trial.validated_unit = trial.jit_unit

\* the verifier rejected a unit of two instructions while the JIT was available
C10_Witness ==
    /\ trial.validated = "VerificationError"
    /\ cinderjit
    /\ Len(insts) = 2
    /\ result[2] = "VERIFICATION_ERROR"


\* C11: when compile() cannot parse the wrapped text (SyntaxError), the trial
\* returns the pair (None, SYNTAX_ERROR), and neither the verifier nor the JIT
\* was invoked in that trial; no instruction was emitted and no unit exists.
C11_SyntaxErrorReturnsNone ==
    trial.compiled = "SyntaxError" =>
        /\ pc = "returned"
        /\ result = << None, "SYNTAX_ERROR" >>
        /\ trial.validated = "not invoked"
        /\ trial.jit = "not invoked"
        /\ code = None

C11_Witness ==
    /\ trial.compiled = "SyntaxError"
    /\ pc = "returned"
    /\ result[2] = "SYNTAX_ERROR"


\* C12: a trial returns SUCCESS exactly when compile() produced a unit, the
\* verifier accepted it, and either there is no JIT (the cinderjit import
\* failed) or the JIT compiled the unit without an error; and a trial without
\* a JIT never returns ERROR_CAUGHT_BY_JIT.
C12_SuccessIffAllStagesPassed ==
    pc = "returned" =>
        /\ result[2] = "SUCCESS" <=>
              /\ trial.compiled = "compiled"
              /\ trial.validated = "passed"
              /\ (~cinderjit \/ trial.jit = "compiled")
        /\ ~cinderjit => result[2] # "ERROR_CAUGHT_BY_JIT"
        /\ ~cinderjit => trial.jit = "not invoked"

C12_Witness ==
    /\ pc = "returned"
    /\ result[2] = "SUCCESS"
    /\ ~cinderjit
    /\ trial.validated = "passed"

C12_WitnessJit ==
    /\ pc = "returned"
    /\ result[2] = "ERROR_CAUGHT_BY_JIT"
    /\ cinderjit


\* the table the oparg of a table-resident opcode lives in, as emit's guard
\* finds it (after convertArg has looked the oparg up or inserted it)
OwnTable(opcode, oparg) ==
    LET g == convertArg(Graph, opcode, oparg).g
    IN  IF opcode \in INSTRS_WITH_OPARG_IN_CONSTS THEN g.consts
        ELSE IF opcode \in INSTRS_WITH_OPARG_IN_NAMES THEN g.names
        ELSE IF opcode \in INSTRS_WITH_OPARG_IN_VARNAMES THEN g.varnames
        ELSE IF oparg \in DOMAIN g.freevars THEN g.freevars
        ELSE g.cellvars

\* an emit call that came back to the code generator (no exception)
Completed(call) == call.path \in { "placeholder", "substituted", "randomized", "suppressed" }

FallsBack(opcode) ==
    /\ LatestCall.path \in { "randomized", "suppressed" }
    /\ LatestCall.inst # 0 => LatestInstruction.opname = opcode

\* C13: when the percent draw is within the substitution chance (as every
\* draw is with a chance of 100) and the engine proposes another opcode, an
\* emit call for a table-resident opcode whose own table holds exactly one
\* entry falls back to oparg randomization: the call completes without an
\* exception and the instruction it emits keeps the original opcode.
C13_SingleEntryTableFallsBack ==
    [][ ( /\ EmitStep
          /\ TableResident(LatestCall.opcode)
          /\ within_chance(draw'.percent)
          /\ Size(OwnTable(LatestCall.opcode, LatestCall.oparg)) = 1 )
        => FallsBack(LatestCall.opcode) ]_vars

\* the same for the opcodes of names, varnames and consts only
C13_SingleEntryTableFallsBackNotClosure ==
    [][ ( /\ EmitStep
          /\ TableResident(LatestCall.opcode)
          /\ LatestCall.opcode \notin INSTRS_WITH_OPARG_IN_CLOSURE
          /\ within_chance(draw'.percent)
          /\ Size(OwnTable(LatestCall.opcode, LatestCall.oparg)) = 1 )
        => FallsBack(LatestCall.opcode) ]_vars


C14_AsManyInstructionsAsCalls ==
    (\A i \in DOMAIN calls : calls[i].path \in { "placeholder", "substituted", "randomized" }
                             /\ calls[i].inst # 0)
        => Len(insts) = Len(calls)

RECURSIVE EqualUpToZeroSigns(_, _)
EqualUpToZeroSigns(a, b) ==
    IF a.ty # b.ty
    THEN FALSE
    ELSE IF a.ty = "float"
    THEN a.n = b.n /\ (a.n # 0 => a.sign = b.sign)
    ELSE IF a.ty = "tuple"
    THEN /\ Len(a.items) = Len(b.items)
         /\ \A i \in DOMAIN a.items : EqualUpToZeroSigns(a.items[i], b.items[i])
    ELSE IF a.ty = "frozenset"
    THEN /\ Len(a.items) = Len(b.items)
         /\ \A i \in DOMAIN a.items : \E j \in DOMAIN b.items :
               EqualUpToZeroSigns(a.items[i], b.items[j])
    ELSE a = b

\* somewhere in the two constants a zero has another sign
RECURSIVE ZeroSignDiffers(_, _)
ZeroSignDiffers(a, b) ==
    IF a.ty # b.ty
    THEN FALSE
    ELSE IF a.ty = "float"
    THEN a.n = 0 /\ b.n = 0 /\ a.sign # b.sign
    ELSE IF a.ty = "tuple"
    THEN /\ Len(a.items) = Len(b.items)
         /\ \E i \in DOMAIN a.items : ZeroSignDiffers(a.items[i], b.items[i])
    ELSE IF a.ty = "frozenset"
    THEN \E i \in DOMAIN a.items : \E j \in DOMAIN b.items :
            /\ EqualUpToZeroSigns(a.items[i], b.items[j])
            /\ ZeroSignDiffers(a.items[i], b.items[j])
    ELSE FALSE

\* C15: two constants that are equal as values (Python's ==) and differ only
\* in the sign of a zero, the floats 0.0 and -0.0 themselves or tuples and
\* frozensets holding them at any depth of nesting, get keys from
\* get_const_key that are not equal, so they take two slots of consts.
C15_ZeroSignsGiveDistinctKeys ==
    ( /\ gck.pc = "returned"
      /\ EqualUpToZeroSigns(gck.a, gck.b)
      /\ ZeroSignDiffers(gck.a, gck.b) )
    => /\ PyEq(gck.a, gck.b)
       /\ ~KeyEq(gck.key_a, gck.key_b)
       /\ gck.key_a # gck.key_b

\* a tuple in a tuple, and the same with the other zero
C15_Witness ==
    /\ gck.pc = "returned"
    /\ gck.a = Tuple(<< Tuple(<< Float(1, 0), Int_(1) >>) >>)
    /\ gck.b = Tuple(<< Tuple(<< Float(-1, 0), Int_(1) >>) >>)
    /\ PyEq(gck.a, gck.b)
    /\ ~KeyEq(gck.key_a, gck.key_b)

\* the floats themselves, and a frozenset in a frozenset
C15_WitnessFloat ==
    /\ gck.pc = "returned"
    /\ gck.a = Float(1, 0)
    /\ gck.b = Float(-1, 0)
    /\ ~KeyEq(gck.key_a, gck.key_b)

C15_WitnessFrozenset ==
    /\ gck.pc = "returned"
    /\ gck.a = Frozenset(<< Frozenset(<< Float(1, 0), Str(<< "a" >>) >>) >>)
    /\ gck.b = Frozenset(<< Frozenset(<< Str(<< "a" >>), Float(-1, 0) >>) >>)
    /\ PyEq(gck.a, gck.b)
    /\ ~KeyEq(gck.key_a, gck.key_b)


\* the tables of the unit and the record of replaced opargs stay as they are
TablesAndRecordUnchanged ==
    UNCHANGED << names, varnames, freevars, cellvars, closure, consts, oparg_randomizations >>

\* C16: an emit call whose oparg is a block (and whose opcode is not
\* SET_LINENO) emits, unless emission is switched off, one instruction with
\* the opcode it was handed, oparg 0, ioparg 0 and the block as target; and
\* it leaves names, varnames, freevars, cellvars, closure, consts and
\* oparg_randomizations unchanged.
C16_BlockOpargPassesThrough ==
    [][ ( /\ EmitStep
          /\ LatestCall.opcode # "SET_LINENO"
          /\ LatestCall.oparg.ty = "block" )
        => /\ LatestCall.path = "placeholder"
           /\ TablesAndRecordUnchanged
           /\ IF do_not_emit_bytecode
              THEN insts' = insts
              ELSE /\ insts' = Append(insts, LatestInstruction)
                   /\ LatestCall.inst = Len(insts')
                   /\ LatestInstruction.opname = LatestCall.opcode
                   /\ LatestInstruction.oparg = Int_(0)
                   /\ LatestInstruction.ioparg = 0
                   /\ LatestInstruction.target = LatestCall.oparg ]_vars

\* a block instruction emitted into a unit whose tables hold entries and whose
\* record holds a replacement
C16_Witness ==
    /\ Len(calls) = 2
    /\ calls[1].path = "randomized"
    /\ calls[1].opcode = "LOAD_NAME"
    /\ calls[2].opcode = "JUMP_FORWARD"
    /\ calls[2].oparg.ty = "block"
    /\ calls[2].inst = 2
    /\ insts[2].opname = "JUMP_FORWARD"
    /\ insts[2].target = calls[2].oparg


\* every key of the table is still in it, at the index it had
EntriesKept(table, after) ==
    \A key \in DOMAIN table : key \in DOMAIN after /\ after[key] = table[key]

\* the instruction emit appends when nothing is fuzzed: the opcode, the
\* oparg and the ioparg convertArg finds for it
Unfuzzed(opcode, oparg) ==
    IF opcode # "SET_LINENO" /\ oparg.ty = "block"
    THEN Instruction(opcode, Int_(0), 0, oparg)
    ELSE Instruction(opcode, oparg, convertArg(Graph, opcode, oparg).ioparg, None)

\* C17: for an opcode of INSTRS_WITH_BRANCHES, of
\* INSTRS_WITH_OPARG_AFFECTING_STACK, or LOAD_CONST, whatever the percent draw
\* and the other draws are, the emit call does not substitute the opcode, the
\* instruction it emits has the opcode, the oparg and the ioparg of the
\* unfuzzed emission, and no entry of names, varnames, freevars, cellvars,
\* closure or consts is deleted or moved to another key or index.
C17_ExemptOpcodesPassThrough ==
    [][ (EmitStep /\ exempt_opcode(LatestCall.opcode)) =>
          /\ LatestCall.path \in { "placeholder", "randomized", "suppressed" }
          /\ LatestCall.inst # 0 =>
                /\ insts' = Append(insts, Unfuzzed(LatestCall.opcode, LatestCall.oparg))
                /\ LatestCall.inst = Len(insts')
          /\ ~do_not_emit_bytecode => LatestCall.inst # 0
          /\ EntriesKept(names, names')
          /\ EntriesKept(varnames, varnames')
          /\ EntriesKept(freevars, freevars')
          /\ EntriesKept(cellvars, cellvars')
          /\ EntriesKept(closure, closure')
          /\ EntriesKept(consts, consts')
          /\ LatestCall.path # "placeholder" =>
                consts' = convertArg(Graph, LatestCall.opcode, LatestCall.oparg).g.consts ]_vars

\* a LOAD_CONST emitted with a percent draw within the chance, after a
\* constant is in consts
C17_Witness ==
    /\ Len(calls) = 2
    /\ calls[1].opcode = "LOAD_CONST"
    /\ calls[2].opcode = "LOAD_CONST"
    /\ calls[2].oparg # calls[1].oparg
    /\ calls[2].path = "randomized"
    /\ within_chance(draw.percent)
    /\ insts[2].oparg = calls[2].oparg
    /\ insts[2].ioparg = 1

\* a call of the variable-effect set emitted as it was handed in
C17_WitnessCall ==
    /\ Len(calls) = 1
    /\ calls[1].opcode = "CALL_FUNCTION"
    /\ calls[1].path = "randomized"
    /\ within_chance(draw.percent)
    /\ insts[1] = Instruction("CALL_FUNCTION", Int_(0), 0, None)


\* the three conditions of fuzzer.py:79-89 for the latest emit call
AllThreeHold ==
    /\ draw'.percent <= INSTR_RANDOMIZATION_CHANCE
    /\ draw'.replaced
    /\ draw'.can_replace

\* C18: an emit call (its oparg not a block) substitutes the opcode exactly
\* when the percent draw is within INSTR_RANDOMIZATION_CHANCE, randomize_opcode
\* returned another opcode and can_replace_oparg holds; in every other case it
\* randomizes the oparg and the instruction keeps the opcode.  The percent
\* draws start at 1, so under a chance of 0 no draw is within the chance and
\* every instruction keeps its opcode.
C18_SubstitutedExactlyWhenAllThreeHold ==
    [][ (EmitStep /\ LatestCall.path # "placeholder") =>
          /\ draw'.percent \in PercentRange
          /\ LatestCall.path = "substituted" => AllThreeHold
          /\ LatestCall.path \in { "randomized", "suppressed" } => ~AllThreeHold
          /\ (AllThreeHold /\ Completed(LatestCall)) =>
                /\ LatestCall.path = "substituted"
                /\ LatestCall.inst # 0
                /\ LatestInstruction.opname # LatestCall.opcode
          /\ (~AllThreeHold /\ Completed(LatestCall)) =>
                /\ LatestCall.path \in { "randomized", "suppressed" }
                /\ LatestCall.inst # 0 => LatestInstruction.opname = LatestCall.opcode
          /\ \A percent \in PercentRange : ~(percent <= 0) ]_vars

\* a call whose draw was beyond the chance although another opcode was at
\* hand and the guard held, after a call that substituted
C18_Witness ==
    /\ Len(calls) = 2
    /\ calls[1].path = "substituted"
    /\ calls[2].path = "randomized"
    /\ draw.percent > INSTR_RANDOMIZATION_CHANCE
    /\ draw.replaced
    /\ draw.can_replace
    /\ insts[2].opname = calls[2].opcode


\* C19: the ioparg of a COMPARE_OP instruction emitted by oparg randomization
\* is one of the CMP_OP_LENGTH comparison operators, 0 .. CMP_OP_LENGTH - 1.
C19_CompareOpInDomain ==
    [][ ( /\ EmitStep
          /\ LatestCall.opcode = "COMPARE_OP"
          /\ LatestCall.path = "randomized" )
        => LatestInstruction.ioparg \in 0 .. (CMP_OP_LENGTH - 1) ]_vars


\* the result has the shape of the original: a tuple for a tuple and as long,
\* a frozenset for a frozenset and as large, and so for the containers in them
RECURSIVE SameShape(_, _)
SameShape(original, randomized) ==
    IF original.ty = "tuple"
    THEN /\ randomized.ty = "tuple"
         /\ Len(randomized.items) = Len(original.items)
         /\ \A i \in DOMAIN original.items : SameShape(original.items[i], randomized.items[i])
    ELSE IF original.ty = "frozenset"
    THEN /\ randomized.ty = "frozenset"
         /\ Len(randomized.items) = Len(original.items)
         /\ \A i \in DOMAIN randomized.items : \E j \in DOMAIN original.items :
               SameShape(original.items[j], randomized.items[i])
    ELSE randomized.ty = original.ty

\* C20: whatever is drawn for the items, randomize_variable returns for a
\* tuple a tuple of the same length and for a frozenset a frozenset of the
\* same number of elements, and the same holds of the containers nested in
\* them.
C20_ContainerShapeKept ==
    (rnd.pc = "returned" /\ rnd.entry = "randomize_variable")
        => SameShape(rnd.original, rnd.result)

\* the same for the tuples that hold no frozenset
C20_TupleShapeKept ==
    ( /\ rnd.pc = "returned"
      /\ rnd.entry = "randomize_variable"
      /\ rnd.original.ty = "tuple"
      /\ \A i \in DOMAIN rnd.original.items :
            /\ rnd.original.items[i].ty # "frozenset"
            /\ rnd.original.items[i].ty = "tuple" =>
                  \A k \in DOMAIN rnd.original.items[i].items :
                      rnd.original.items[i].items[k].ty # "frozenset" )
        => SameShape(rnd.original, rnd.result)


\* C21: when randomize_opcode returns another opcode than the one it was
\* handed, the opcode returned is not one of INSTRS_WITH_BRANCHES and is not
\* LOAD_CONST, whatever the original opcode and the draw.
C21_ReplacementNeverExempt ==
    (rop.pc = "returned" /\ rop.result # rop.opcode) =>
        /\ rop.result \notin INSTRS_WITH_BRANCHES
        /\ rop.result # "LOAD_CONST"

\* the same for LOAD_CONST alone
C21_ReplacementNeverLoadConst ==
    (rop.pc = "returned" /\ rop.result # rop.opcode) => rop.result # "LOAD_CONST"


\* C22: an emit call made while do_not_emit_bytecode is set appends no
\* instruction, and deletes no entry of names, varnames, freevars, cellvars,
\* closure or consts nor moves one to another key or index, whichever path
\* the call takes (block oparg, opcode substitution, oparg randomization).
C22_NothingEmittedWhileSuppressed ==
    [][ (EmitStep /\ do_not_emit_bytecode) =>
          /\ insts' = insts
          /\ EntriesKept(names, names')
          /\ EntriesKept(varnames, varnames')
          /\ EntriesKept(freevars, freevars')
          /\ EntriesKept(cellvars, cellvars')
          /\ EntriesKept(closure, closure')
          /\ EntriesKept(consts, consts') ]_vars

\* the same for the calls that do not substitute the opcode
C22_NothingEmittedWhileSuppressedUnlessSubstituted ==
    [][ (EmitStep /\ do_not_emit_bytecode /\ ~AllThreeHold) =>
          /\ LatestCall.path \in { "placeholder", "suppressed" }
          /\ insts' = insts
          /\ EntriesKept(names, names')
          /\ EntriesKept(varnames, varnames')
          /\ EntriesKept(freevars, freevars')
          /\ EntriesKept(cellvars, cellvars')
          /\ EntriesKept(closure, closure')
          /\ EntriesKept(consts, consts') ]_vars

====
